---- MODULE Spec2Model ----
(***************************************************************************)
(* Model of src/lib/threejs.ts: the scene/camera/renderer factory, the     *)
(* environment and model loaders, the geometry normaliser, the shadow      *)
(* configurator and the material collector.                                *)
(*                                                                         *)
(* Four specifications share the module, one per group of operations:      *)
(*   Spec      the two asynchronous loaders acting on one scene            *)
(*   SpecGeom  centerAndScaleModel on a model with an arbitrary transform  *)
(*   SpecTree  enableModelShadows and getUniqueModelMaterials on a tree    *)
(*   SpecCam   initScene/initCamera/initRenderer/initOrbitControls/        *)
(*             setupLighting on a mount node                               *)
(* JavaScript numbers are modelled as exact rationals extended with        *)
(* Infinity, -Infinity and NaN (a record n/d with d = 0); rounding is not   *)
(* modelled, so equalities between numbers are exact.                      *)
(***************************************************************************)
EXTENDS Integers, Sequences, FiniteSets

VARIABLES
    \* ---- loaders (Spec)
    scene,          \* scene.environment, scene.background, scene.backgroundBlurriness
    calls,          \* one record per started setupEnvironment / loadGLTFModel call
    revoked,        \* object URL id -> number of URL.revokeObjectURL calls on it
    microtasks,     \* continuations queued by settled loader promises, FIFO
    mapping,        \* texture id -> texture.mapping
    \* ---- geometry normaliser (SpecGeom)
    geometry,       \* geometry.boundingBox of each mesh of the model, model-local
    modelScale,     \* model.scale
    modelPosition,  \* model.position
    normalizeCalls, \* number of centerAndScaleModel calls made
    normalizeError, \* error raised by the last centerAndScaleModel call
    \* ---- traversals (SpecTree)
    nodes,          \* node id -> kind, children, material, castShadow, receiveShadow
    shadowed,       \* enableModelShadows has run on the model
    collected,      \* getUniqueModelMaterials has run on the model
    lastMaterials,  \* result of the last getUniqueModelMaterials call
    \* ---- factory (SpecCam)
    mountNode,      \* clientWidth, clientHeight
    sceneMade,      \* initScene has run
    camera,         \* result of initCamera, or NoObject
    renderer,       \* result of initRenderer, or NoObject
    controls,       \* result of initOrbitControls, or NoObject
    light,          \* result of setupLighting, or NoObject
    cameraError     \* error raised by initCamera

loaderVars == <<scene, calls, revoked, microtasks, mapping>>
geomVars   == <<geometry, modelScale, modelPosition, normalizeCalls, normalizeError>>
treeVars   == <<nodes, shadowed, collected, lastMaterials>>
camVars    == <<mountNode, sceneMade, camera, renderer, controls, light, cameraError>>
vars       == <<loaderVars, geomVars, treeVars, camVars>>

(***************************************************************************)
(* Bounds                                                                  *)
(***************************************************************************)
MaxCalls  == 2   \* load operations started in one run
MaxBlur   == 1   \* blurriness values 0..MaxBlur (slider steps)
MaxMeshes == 2   \* meshes of the model given to centerAndScaleModel
MaxCoord  == 1   \* mesh bounding-box corners lie in 0..MaxCoord
MaxScale  == 2   \* initial uniform model scale in 1..MaxScale
MaxOffset == 1   \* initial model position components in 0..MaxOffset
MaxRuns   == 2   \* centerAndScaleModel calls in one run
MaxNodes  == 4   \* nodes of the model tree
MaxMats   == 2   \* distinct material instances
MaxDim    == 3   \* mount node width and height in 0..MaxDim

(***************************************************************************)
(* JavaScript numbers                                                      *)
(***************************************************************************)
Abs(x)  == IF x < 0 THEN -x ELSE x
Sign(x) == IF x < 0 THEN -1 ELSE IF x = 0 THEN 0 ELSE 1

RECURSIVE GCD(_, _)
GCD(a, b) == IF b = 0 THEN a ELSE GCD(b, a % b)

\* n/d in lowest terms with d >= 0; d = 0 gives Infinity, -Infinity or NaN
Num(n, d) ==
    IF d = 0 THEN [n |-> Sign(n), d |-> 0]
    ELSE LET s == IF d < 0 THEN -1 ELSE 1
             g == GCD(Abs(n), Abs(d))
         IN  [n |-> (s * n) \div g, d |-> (s * d) \div g]

I(k)     == [n |-> k, d |-> 1]
NaN      == [n |-> 0, d |-> 0]
Infinity == [n |-> 1, d |-> 0]
NegInfinity == [n |-> -1, d |-> 0]
IsNaN(a)    == a.d = 0 /\ a.n = 0
IsFinite(a) == a.d # 0

Neg(a)    == [n |-> -a.n, d |-> a.d]
Mul(a, b) == Num(a.n * b.n, a.d * b.d)
Recip(b)  == IF b.d = 0 THEN (IF b.n = 0 THEN NaN ELSE I(0))
             ELSE IF b.n = 0 THEN Infinity
             ELSE Num(b.d, b.n)
Div(a, b) == Mul(a, Recip(b))
Add(a, b) == IF IsNaN(a) \/ IsNaN(b) THEN NaN
             ELSE IF a.d = 0 /\ b.d = 0 THEN (IF a.n = b.n THEN a ELSE NaN)
             ELSE IF a.d = 0 THEN a
             ELSE IF b.d = 0 THEN b
             ELSE Num(a.n * b.d + b.n * a.d, a.d * b.d)
Sub(a, b) == Add(a, Neg(b))
Less(a, b) == IF IsNaN(a) \/ IsNaN(b) \/ a = b THEN FALSE
              ELSE IF a = NegInfinity \/ b = Infinity THEN TRUE
              ELSE IF a = Infinity \/ b = NegInfinity THEN FALSE
              ELSE a.n * b.d < b.n * a.d
MathMax(a, b) == IF IsNaN(a) \/ IsNaN(b) THEN NaN ELSE IF Less(a, b) THEN b ELSE a
MathMin(a, b) == IF IsNaN(a) \/ IsNaN(b) THEN NaN ELSE IF Less(b, a) THEN b ELSE a

Vector3(x, y, z) == [x |-> x, y |-> y, z |-> z]

(***************************************************************************)
(* Environment loader and model loader                                     *)
(***************************************************************************)
Null       == [kind |-> "null", id |-> 0]
Texture(c) == [kind |-> "texture", id |-> c]    \* texture decoded by call c
GLTF(c)    == [kind |-> "gltf", id |-> c]       \* asset decoded by call c
Error(c)   == [kind |-> "error", id |-> c]      \* decode error of call c
White      == [kind |-> "color", id |-> 16777215]   \* new Color(0xffffff)

Blurs == 0..MaxBlur

\* new Scene()
initScene == [environment |-> Null, background |-> Null, backgroundBlurriness |-> 0]

\* URL.createObjectURL: a fresh URL, not yet revoked
createObjectURL(rv, u) ==
    [v \in DOMAIN rv \cup {u} |-> IF v \in DOMAIN rv THEN rv[v] ELSE 0]

\* URL.revokeObjectURL
revokeObjectURL(rv, u) == [rv EXCEPT ![u] = @ + 1]

setSceneEnvironment_AlwaysSkybox(sc, texture, blurriness, useSkybox) ==
    [environment |-> texture, background |-> texture,
     backgroundBlurriness |-> blurriness]

\* the scene after setSceneEnvironment(scene, texture, blurriness, useSkybox)
setSceneEnvironment(sc, texture, blurriness, useSkybox) ==
    [sc EXCEPT !.environment = texture,
               !.background = IF useSkybox THEN texture ELSE White,
               !.backgroundBlurriness = blurriness]

Pending(cs) == {c \in DOMAIN cs : cs[c].pc = "awaiting"}

\* setupEnvironment up to its await: the URL is chosen and the decode issued
SetupEnvironmentBegin(isFile, blurriness, useSkybox) ==
    /\ Len(calls) < MaxCalls
    /\ LET c == Len(calls) + 1
       IN  /\ calls' = Append(calls,
                  [kind |-> "env", isFile |-> isFile, blurriness |-> blurriness,
                   useSkybox |-> useSkybox, url |-> IF isFile THEN c ELSE 0,
                   pc |-> "awaiting", outcome |-> "pending", value |-> Null,
                   pendingAtStart |-> Pending(calls)])
           /\ revoked' = IF isFile THEN createObjectURL(revoked, c) ELSE revoked
    /\ UNCHANGED <<scene, microtasks, mapping>>

\* loadGLTFModel up to its await
LoadGLTFModelBegin ==
    /\ Len(calls) < MaxCalls
    /\ LET c == Len(calls) + 1
       IN  /\ calls' = Append(calls,
                  [kind |-> "gltf", isFile |-> TRUE, blurriness |-> 0,
                   useSkybox |-> FALSE, url |-> c,
                   pc |-> "awaiting", outcome |-> "pending", value |-> Null,
                   pendingAtStart |-> Pending(calls)])
           /\ revoked' = createObjectURL(revoked, c)
    /\ UNCHANGED <<scene, microtasks, mapping>>

\* the promise of loadAsync is fulfilled; the awaiting continuation is queued
DecodeResolve(c) ==
    /\ c \in DOMAIN calls
    /\ calls[c].pc = "awaiting"
    /\ calls' = [calls EXCEPT ![c].pc = "resolved"]
    /\ microtasks' = Append(microtasks, c)
    /\ mapping' = IF calls[c].kind = "env"
                  THEN [t \in DOMAIN mapping \cup {c} |->
                           IF t \in DOMAIN mapping THEN mapping[t] ELSE "UVMapping"]
                  ELSE mapping
    /\ UNCHANGED <<scene, revoked>>

\* the promise of loadAsync is rejected; the awaiting continuation is queued
DecodeReject(c) ==
    /\ c \in DOMAIN calls
    /\ calls[c].pc = "awaiting"
    /\ calls' = [calls EXCEPT ![c].pc = "rejected"]
    /\ microtasks' = Append(microtasks, c)
    /\ UNCHANGED <<scene, revoked, mapping>>

setupEnvironmentFinally_Never(rv, call) == rv

\* finally { if (typeof file !== "string" && url) URL.revokeObjectURL(url) }
setupEnvironmentFinally(rv, call) ==
    IF call.isFile /\ call.url # 0 THEN revokeObjectURL(rv, call.url) ELSE rv

\* finally { URL.revokeObjectURL(url) }
loadGLTFModelFinally(rv, call) == revokeObjectURL(rv, call.url)

\* setupEnvironment after a fulfilled await: install, return, finally
SetupEnvironmentResolved(c) ==
    /\ microtasks # << >> /\ c = Head(microtasks)
    /\ calls[c].kind = "env" /\ calls[c].pc = "resolved"
    /\ mapping' = [mapping EXCEPT ![c] = "EquirectangularReflectionMapping"]
    /\ scene' = setSceneEnvironment(scene, Texture(c), calls[c].blurriness,
                                    calls[c].useSkybox)
    /\ calls' = [calls EXCEPT ![c].pc = "returned", ![c].outcome = "fulfilled",
                              ![c].value = Texture(c)]
    /\ revoked' = setupEnvironmentFinally(revoked, calls[c])
    /\ microtasks' = Tail(microtasks)

setupEnvironmentCatch_Swallow(sc, call, c) ==
    [scene |-> sc, outcome |-> "fulfilled", value |-> Null]

\* catch (error) { console.error(...); throw error }
setupEnvironmentCatch(sc, call, c) ==
    [scene |-> sc, outcome |-> "rejected", value |-> Error(c)]

\* setupEnvironment after a rejected await: catch, rethrow, finally
SetupEnvironmentRejected(c) ==
    /\ microtasks # << >> /\ c = Head(microtasks)
    /\ calls[c].kind = "env" /\ calls[c].pc = "rejected"
    /\ LET r == setupEnvironmentCatch(scene, calls[c], c)
       IN  /\ scene' = r.scene
           /\ calls' = [calls EXCEPT ![c].pc = "thrown", ![c].outcome = r.outcome,
                                     ![c].value = r.value]
    /\ revoked' = setupEnvironmentFinally(revoked, calls[c])
    /\ microtasks' = Tail(microtasks)
    /\ UNCHANGED mapping

\* loadGLTFModel after a fulfilled await: return gltf, finally
LoadGLTFModelResolved(c) ==
    /\ microtasks # << >> /\ c = Head(microtasks)
    /\ calls[c].kind = "gltf" /\ calls[c].pc = "resolved"
    /\ calls' = [calls EXCEPT ![c].pc = "returned", ![c].outcome = "fulfilled",
                              ![c].value = GLTF(c)]
    /\ revoked' = loadGLTFModelFinally(revoked, calls[c])
    /\ microtasks' = Tail(microtasks)
    /\ UNCHANGED <<scene, mapping>>

\* loadGLTFModel after a rejected await: catch, rethrow, finally
LoadGLTFModelRejected(c) ==
    /\ microtasks # << >> /\ c = Head(microtasks)
    /\ calls[c].kind = "gltf" /\ calls[c].pc = "rejected"
    /\ calls' = [calls EXCEPT ![c].pc = "thrown", ![c].outcome = "rejected",
                              ![c].value = Error(c)]
    /\ revoked' = loadGLTFModelFinally(revoked, calls[c])
    /\ microtasks' = Tail(microtasks)
    /\ UNCHANGED <<scene, mapping>>

LoaderInit ==
    /\ scene = initScene
    /\ calls = << >>
    /\ revoked = << >>
    /\ microtasks = << >>
    /\ mapping = << >>

(***************************************************************************)
(* Geometry normaliser                                                     *)
(***************************************************************************)
TargetSize == 3

\* new Box3(): the empty box
emptyBox == [min |-> Vector3(Infinity, Infinity, Infinity),
             max |-> Vector3(NegInfinity, NegInfinity, NegInfinity)]

\* Box3.isEmpty
isEmpty(box) == \/ Less(box.max.x, box.min.x)
                \/ Less(box.max.y, box.min.y)
                \/ Less(box.max.z, box.min.z)

\* Box3.applyMatrix4 for the matrix composed of a scale and a translation
applyMatrix4(box, s, p) ==
    IF isEmpty(box) THEN box
    ELSE LET lox == Add(Mul(s.x, box.min.x), p.x)
             hix == Add(Mul(s.x, box.max.x), p.x)
             loy == Add(Mul(s.y, box.min.y), p.y)
             hiy == Add(Mul(s.y, box.max.y), p.y)
             loz == Add(Mul(s.z, box.min.z), p.z)
             hiz == Add(Mul(s.z, box.max.z), p.z)
         IN  [min |-> Vector3(MathMin(lox, hix), MathMin(loy, hiy), MathMin(loz, hiz)),
              max |-> Vector3(MathMax(lox, hix), MathMax(loy, hiy), MathMax(loz, hiz))]

\* Box3.union
union(a, b) ==
    [min |-> Vector3(MathMin(a.min.x, b.min.x), MathMin(a.min.y, b.min.y),
                     MathMin(a.min.z, b.min.z)),
     max |-> Vector3(MathMax(a.max.x, b.max.x), MathMax(a.max.y, b.max.y),
                     MathMax(a.max.z, b.max.z))]

\* Box3.setFromObject(model): the union of the meshes' boxes in world space
RECURSIVE expandByMeshes(_, _, _, _, _)
expandByMeshes(box, geo, i, s, p) ==
    IF i > Len(geo) THEN box
    ELSE expandByMeshes(union(box, applyMatrix4(geo[i], s, p)), geo, i + 1, s, p)

setFromObject(geo, s, p) == expandByMeshes(emptyBox, geo, 1, s, p)

\* Box3.getCenter
getCenter(box) ==
    IF isEmpty(box) THEN Vector3(I(0), I(0), I(0))
    ELSE Vector3(Mul(Add(box.min.x, box.max.x), Num(1, 2)),
                 Mul(Add(box.min.y, box.max.y), Num(1, 2)),
                 Mul(Add(box.min.z, box.max.z), Num(1, 2)))

\* Box3.getSize
getSize(box) ==
    IF isEmpty(box) THEN Vector3(I(0), I(0), I(0))
    ELSE Vector3(Sub(box.max.x, box.min.x), Sub(box.max.y, box.min.y),
                 Sub(box.max.z, box.min.z))

maxDim(box) ==
    LET size == getSize(box) IN MathMax(MathMax(size.x, size.y), size.z)

\* the transform centerAndScaleModel assigns, and the error it raises
centerAndScaleModel(geo, s, p) ==
    LET box    == setFromObject(geo, s, p)
        center == getCenter(box)
        scale  == Div(I(TargetSize), maxDim(box))
    IN  [scale    |-> Vector3(scale, scale, scale),
         position |-> Vector3(Mul(Neg(center.x), scale),
                              Mul(Neg(box.min.y), scale),
                              Mul(Neg(center.z), scale)),
         error    |-> "none"]

CenterAndScaleModel ==
    /\ normalizeCalls < MaxRuns
    /\ LET r == centerAndScaleModel(geometry, modelScale, modelPosition)
       IN  /\ modelScale' = r.scale
           /\ modelPosition' = r.position
           /\ normalizeError' = r.error
    /\ normalizeCalls' = normalizeCalls + 1
    /\ UNCHANGED geometry

Coords == 0..MaxCoord
Boxes  == {[min |-> Vector3(I(x1), I(y1), I(z1)), max |-> Vector3(I(x2), I(y2), I(z2))] :
              <<x1, x2, y1, y2, z1, z2>> \in
                 {t \in Coords \X Coords \X Coords \X Coords \X Coords \X Coords :
                      t[1] <= t[2] /\ t[3] <= t[4] /\ t[5] <= t[6]}}
GeomInit ==
    /\ \E n \in 0..MaxMeshes : geometry \in [1..n -> Boxes]
    /\ \E s \in 1..MaxScale : modelScale = Vector3(I(s), I(s), I(s))
    /\ \E px, py, pz \in 0..MaxOffset : modelPosition = Vector3(I(px), I(py), I(pz))
    /\ normalizeCalls = 0
    /\ normalizeError = "none"

GeomIdle ==
    /\ geometry = << >>
    /\ modelScale = Vector3(I(1), I(1), I(1))
    /\ modelPosition = Vector3(I(0), I(0), I(0))
    /\ normalizeCalls = 0
    /\ normalizeError = "none"

(***************************************************************************)
(* Model tree, shadow configurator, material collector                     *)
(***************************************************************************)
Range(f) == {f[i] : i \in DOMAIN f}

\* Object3D.traverse(callback): the nodes in the order the callback sees them
RECURSIVE traverse(_, _), traverseChildren(_, _, _)
traverse(ns, id) == <<id>> \o traverseChildren(ns, ns[id].children, 1)
traverseChildren(ns, children, i) ==
    IF i > Len(children) THEN << >>
    ELSE traverse(ns, children[i]) \o traverseChildren(ns, children, i + 1)

\* the callback of enableModelShadows on one node
enableShadow(node) ==
    IF node.kind = "Mesh"
    THEN [node EXCEPT !.castShadow = TRUE, !.receiveShadow = TRUE]
    ELSE node

enableModelShadows_ChildrenOnly(ns) ==
    LET visited == {1} \cup Range(ns[1].children)
    IN  [id \in DOMAIN ns |-> IF id \in visited THEN enableShadow(ns[id]) ELSE ns[id]]

\* the model after enableModelShadows(model)
enableModelShadows(ns) ==
    LET visited == Range(traverse(ns, 1))
    IN  [id \in DOMAIN ns |-> IF id \in visited THEN enableShadow(ns[id]) ELSE ns[id]]

add_NoDedupe(materials, mat) == Append(materials, mat)

\* Set.prototype.add on an insertion-ordered set
add(materials, mat) ==
    IF mat \in Range(materials) THEN materials ELSE Append(materials, mat)

\* child.material.forEach((mat) => materials.add(mat))
RECURSIVE addEach(_, _, _)
addEach(materials, mats, i) ==
    IF i > Len(mats) THEN materials
    ELSE addEach(add(materials, mats[i]), mats, i + 1)

\* the callback of getUniqueModelMaterials on one node
collect(materials, node) ==
    IF node.kind = "Mesh" /\ node.material.kind # "none"
    THEN IF node.material.kind = "array"
         THEN addEach(materials, node.material.mats, 1)
         ELSE add(materials, node.material.mats[1])
    ELSE materials

RECURSIVE collectAll(_, _, _, _)
collectAll(materials, ns, order, i) ==
    IF i > Len(order) THEN materials
    ELSE collectAll(collect(materials, ns[order[i]]), ns, order, i + 1)

\* Array.from(materials) after the traversal
getUniqueModelMaterials(ns) == collectAll(<< >>, ns, traverse(ns, 1), 1)

EnableModelShadows ==
    /\ nodes' = enableModelShadows(nodes)
    /\ shadowed' = TRUE
    /\ UNCHANGED <<collected, lastMaterials>>

GetUniqueModelMaterials ==
    /\ lastMaterials' = getUniqueModelMaterials(nodes)
    /\ collected' = TRUE
    /\ UNCHANGED <<nodes, shadowed>>

NoMaterial == [kind |-> "none", mats |-> << >>]
MaterialChoices ==
    {NoMaterial}
    \cup {[kind |-> "single", mats |-> <<m>>] : m \in 1..MaxMats}
    \cup {[kind |-> "array", mats |-> <<m, MaxMats>>] : m \in 1..MaxMats}
NodeChoices ==
    {[kind |-> "Group", material |-> NoMaterial]}
    \cup {[kind |-> "Line", material |-> [kind |-> "single", mats |-> <<MaxMats>>]]}
    \cup {[kind |-> "Mesh", material |-> m] : m \in MaterialChoices}

RECURSIVE childrenFrom(_, _, _, _)
childrenFrom(par, id, j, n) ==
    IF j > n THEN << >>
    ELSE (IF par[j] = id THEN <<j>> ELSE << >>) \o childrenFrom(par, id, j + 1, n)

Parents(n) == {par \in [2..n -> 1..n] : \A i \in 2..n : par[i] < i}

MakeTree(n, par, ch) ==
    [id \in 1..n |->
        [kind          |-> IF id = 1 THEN "Group" ELSE ch[id].kind,
         children      |-> childrenFrom(par, id, 2, n),
         material      |-> IF id = 1 THEN NoMaterial ELSE ch[id].material,
         castShadow    |-> FALSE,
         receiveShadow |-> FALSE]]

TreeInit ==
    /\ \E n \in 1..MaxNodes : \E par \in Parents(n), ch \in [2..n -> NodeChoices] :
          nodes = MakeTree(n, par, ch)
    /\ shadowed = FALSE
    /\ collected = FALSE
    /\ lastMaterials = << >>

TreeIdle ==
    /\ nodes = MakeTree(1, << >>, << >>)
    /\ shadowed = FALSE
    /\ collected = FALSE
    /\ lastMaterials = << >>

(***************************************************************************)
(* Scene, camera, renderer, controls, light                                *)
(***************************************************************************)
NoObject == [kind |-> "none"]

\* the camera initCamera returns for a mount node, and the error it raises
initCamera(mn) ==
    [camera |-> [kind     |-> "PerspectiveCamera",
                 fov      |-> I(75),
                 aspect   |-> Div(I(mn.clientWidth), I(mn.clientHeight)),
                 near     |-> Num(1, 10),
                 far      |-> I(1000),
                 position |-> Vector3(I(5), I(3), I(5))],
     error  |-> "none"]

\* the renderer initRenderer returns for a mount node
initRenderer(mn) ==
    [kind                |-> "WebGLRenderer",
     width               |-> mn.clientWidth,
     height              |-> mn.clientHeight,
     pixelRatio          |-> "devicePixelRatio",
     toneMapping         |-> "ACESFilmicToneMapping",
     toneMappingExposure |-> I(1),
     shadowMapEnabled    |-> TRUE,
     shadowMapType       |-> "PCFSoftShadowMap"]

\* the controls initOrbitControls returns
initOrbitControls(cam, rend) ==
    [kind |-> "OrbitControls", enableDamping |-> TRUE, dampingFactor |-> Num(5, 100)]

\* the light setupLighting adds to the scene
setupLighting ==
    [kind |-> "DirectionalLight", color |-> 16777215, intensity |-> I(1),
     position |-> Vector3(I(10), I(10), I(5)), castShadow |-> TRUE]

InitScene ==
    /\ ~sceneMade
    /\ sceneMade' = TRUE
    /\ UNCHANGED <<mountNode, camera, renderer, controls, light, cameraError>>

InitCamera ==
    /\ camera = NoObject
    /\ LET r == initCamera(mountNode)
       IN  /\ camera' = r.camera
           /\ cameraError' = r.error
    /\ UNCHANGED <<mountNode, sceneMade, renderer, controls, light>>

InitRenderer ==
    /\ renderer = NoObject
    /\ renderer' = initRenderer(mountNode)
    /\ UNCHANGED <<mountNode, sceneMade, camera, controls, light, cameraError>>

InitOrbitControls ==
    /\ camera # NoObject /\ renderer # NoObject /\ controls = NoObject
    /\ controls' = initOrbitControls(camera, renderer)
    /\ UNCHANGED <<mountNode, sceneMade, camera, renderer, light, cameraError>>

SetupLighting ==
    /\ sceneMade /\ light = NoObject
    /\ light' = setupLighting
    /\ UNCHANGED <<mountNode, sceneMade, camera, renderer, controls, cameraError>>

CamInit ==
    /\ mountNode \in [clientWidth : 0..MaxDim, clientHeight : 0..MaxDim]
    /\ sceneMade = FALSE
    /\ camera = NoObject
    /\ renderer = NoObject
    /\ controls = NoObject
    /\ light = NoObject
    /\ cameraError = "none"

CamIdle ==
    /\ mountNode = [clientWidth |-> 1, clientHeight |-> 1]
    /\ sceneMade = FALSE
    /\ camera = NoObject
    /\ renderer = NoObject
    /\ controls = NoObject
    /\ light = NoObject
    /\ cameraError = "none"

(***************************************************************************)
(* Specifications                                                          *)
(***************************************************************************)
Init == LoaderInit /\ GeomIdle /\ TreeIdle /\ CamIdle

Next ==
    \/ \E isFile \in BOOLEAN, b \in Blurs, sky \in BOOLEAN :
          SetupEnvironmentBegin(isFile, b, sky) /\ UNCHANGED <<geomVars, treeVars, camVars>>
    \/ LoadGLTFModelBegin /\ UNCHANGED <<geomVars, treeVars, camVars>>
    \/ \E c \in DOMAIN calls : DecodeResolve(c) /\ UNCHANGED <<geomVars, treeVars, camVars>>
    \/ \E c \in DOMAIN calls : DecodeReject(c) /\ UNCHANGED <<geomVars, treeVars, camVars>>
    \/ \E c \in DOMAIN calls :
          SetupEnvironmentResolved(c) /\ UNCHANGED <<geomVars, treeVars, camVars>>
    \/ \E c \in DOMAIN calls :
          SetupEnvironmentRejected(c) /\ UNCHANGED <<geomVars, treeVars, camVars>>
    \/ \E c \in DOMAIN calls :
          LoadGLTFModelResolved(c) /\ UNCHANGED <<geomVars, treeVars, camVars>>
    \/ \E c \in DOMAIN calls :
          LoadGLTFModelRejected(c) /\ UNCHANGED <<geomVars, treeVars, camVars>>

Spec == Init /\ [][Next]_vars

InitGeom == GeomInit /\ LoaderInit /\ TreeIdle /\ CamIdle
NextGeom == CenterAndScaleModel /\ UNCHANGED <<loaderVars, treeVars, camVars>>
SpecGeom == InitGeom /\ [][NextGeom]_vars

InitTree == TreeInit /\ LoaderInit /\ GeomIdle /\ CamIdle
NextTree ==
    \/ EnableModelShadows /\ UNCHANGED <<loaderVars, geomVars, camVars>>
    \/ GetUniqueModelMaterials /\ UNCHANGED <<loaderVars, geomVars, camVars>>
SpecTree == InitTree /\ [][NextTree]_vars

InitCam == CamInit /\ LoaderInit /\ GeomIdle /\ TreeIdle
NextCam ==
    \/ InitScene /\ UNCHANGED <<loaderVars, geomVars, treeVars>>
    \/ InitCamera /\ UNCHANGED <<loaderVars, geomVars, treeVars>>
    \/ InitRenderer /\ UNCHANGED <<loaderVars, geomVars, treeVars>>
    \/ InitOrbitControls /\ UNCHANGED <<loaderVars, geomVars, treeVars>>
    \/ SetupLighting /\ UNCHANGED <<loaderVars, geomVars, treeVars>>
SpecCam == InitCam /\ [][NextCam]_vars

(***************************************************************************)
(* Properties of the loaders (Spec)                                        *)
(***************************************************************************)
EnvCalls == {c \in DOMAIN calls : calls[c].kind = "env"}
Settled(c) == calls[c].pc \in {"returned", "thrown"}

\* C1: when environment B is started while A's decode is still pending and
\* both decodes succeed, then once both calls have settled the scene's
\* environment (and its background when B asked for the skybox) is B's
\* texture, whichever decode completed first.
C1_NewerEnvironmentWins ==
    \A a, b \in EnvCalls :
        (/\ a \in calls[b].pendingAtStart
         /\ calls[a].pc = "returned" /\ calls[b].pc = "returned"
         /\ \A c \in EnvCalls : c > b => calls[c].pc = "thrown")
        => /\ scene.environment = Texture(b)
           /\ calls[b].useSkybox => scene.background = Texture(b)

\* C2: the continuation of a setupEnvironment call whose decode failed leaves
\* the scene's environment, background and blurriness as they were and ends
\* the call rejected with the decode error; the scene changes only in the
\* continuation of a call whose decode succeeded.
C2_FailedLoadLeavesScene ==
    [][/\ \A c \in EnvCalls :
            (calls[c].pc = "rejected" /\ calls'[c].pc # "rejected")
            => /\ scene' = scene
               /\ calls'[c].pc = "thrown"
               /\ calls'[c].outcome = "rejected"
               /\ calls'[c].value = Error(c)
       /\ scene' # scene
            => \E c \in EnvCalls : calls[c].pc = "resolved" /\ calls'[c].pc = "returned"
      ]_vars

\* a failed environment load after an earlier one was installed
C2_Witness ==
    \E a, c \in EnvCalls :
        /\ calls[c].pc = "thrown" /\ calls[c].outcome = "rejected"
        /\ calls[a].pc = "returned"
        /\ scene.environment = Texture(a)

\* C3: every object URL a load creates is revoked exactly once, and only
\* after the load has run its continuation past the settled decode; a load
\* given a URL string creates and revokes none.
C3_ObjectURLRevokedOnce ==
    /\ DOMAIN revoked \subseteq DOMAIN calls
    /\ \A c \in DOMAIN calls :
          IF calls[c].isFile
          THEN /\ c \in DOMAIN revoked
               /\ revoked[c] = IF Settled(c) THEN 1 ELSE 0
          ELSE c \notin DOMAIN revoked

\* two file loads of different kinds have settled, one on each path
C3_Witness ==
    \E a, b \in DOMAIN calls :
        /\ calls[a].kind = "env" /\ calls[a].isFile /\ calls[a].pc = "thrown"
        /\ calls[b].kind = "gltf" /\ calls[b].pc = "returned"
        /\ revoked[a] = 1 /\ revoked[b] = 1

\* C4: the continuation of a setupEnvironment call whose decode succeeded
\* installs the decoded texture as scene.environment, tags it equirectangular,
\* makes it the background exactly when useSkybox is set and a white colour
\* otherwise, sets backgroundBlurriness to the argument and returns the
\* installed texture.
C4_SuccessInstallsTexture ==
    [][\A c \in EnvCalls :
          (calls[c].pc = "resolved" /\ calls'[c].pc # "resolved")
          => /\ scene'.environment = Texture(c)
             /\ mapping'[c] = "EquirectangularReflectionMapping"
             /\ (scene'.background = Texture(c)) <=> calls[c].useSkybox
             /\ ~calls[c].useSkybox => scene'.background = White
             /\ scene'.backgroundBlurriness = calls[c].blurriness
             /\ calls'[c].outcome = "fulfilled"
             /\ calls'[c].value = scene'.environment
      ]_vars

\* an environment installed without the skybox, with a non-zero blurriness
C4_Witness ==
    \E c \in EnvCalls :
        /\ calls[c].pc = "returned" /\ ~calls[c].useSkybox /\ calls[c].blurriness > 0
        /\ scene.environment = Texture(c) /\ scene.background = White
        /\ scene.backgroundBlurriness = calls[c].blurriness

(***************************************************************************)
(* Properties of the geometry normaliser (SpecGeom)                        *)
(***************************************************************************)
WorldBox == setFromObject(geometry, modelScale, modelPosition)
LocalBox == setFromObject(geometry, Vector3(I(1), I(1), I(1)), Vector3(I(0), I(0), I(0)))

Normalized ==
    /\ maxDim(WorldBox) = I(TargetSize)
    /\ WorldBox.min.y = I(0)
    /\ getCenter(WorldBox).x = I(0)
    /\ getCenter(WorldBox).z = I(0)

\* C5: after centerAndScaleModel on a model with a non-degenerate bounding
\* volume, whatever transform it carried, the recomputed bounding volume has
\* maximum extent TargetSize, minimum y 0 and its x and z centre at 0.
C5_NormalizedAfterCall ==
    (normalizeCalls >= 1 /\ Less(I(0), maxDim(LocalBox))) => Normalized

\* C6: centerAndScaleModel applied to a model it has already normalised
\* leaves the model's scale and position as they were.
C6_Idempotent ==
    [][(normalizeCalls >= 1 /\ Normalized /\ normalizeCalls' = normalizeCalls + 1)
       => (modelScale' = modelScale /\ modelPosition' = modelPosition)]_vars

\* C7: centerAndScaleModel on a model whose bounding volume has zero size on
\* all three axes fails with DegenerateGeometry and leaves the transform.
C7_DegenerateRejected ==
    [][(maxDim(WorldBox) = I(0) /\ normalizeCalls' = normalizeCalls + 1)
       => /\ normalizeError' = "DegenerateGeometry"
          /\ modelScale' = modelScale /\ modelPosition' = modelPosition]_vars

(***************************************************************************)
(* Properties of the traversals (SpecTree)                                 *)
(***************************************************************************)
Meshes == {id \in DOMAIN nodes : nodes[id].kind = "Mesh"}
Referenced == UNION {Range(nodes[id].material.mats) : id \in Meshes}
Users(m) == {id \in Meshes : m \in Range(nodes[id].material.mats)}

ParentOf(id) == CHOOSE p \in DOMAIN nodes : id \in Range(nodes[p].children)

RECURSIVE PathTo(_)
PathTo(id) == IF id = 1 THEN <<1>> ELSE Append(PathTo(ParentOf(id)), id)

IndexIn(seq, v) == CHOOSE i \in DOMAIN seq : seq[i] = v /\ \A j \in 1..(i - 1) : seq[j] # v

\* a is visited before b by a parent-before-children depth-first walk that
\* takes children in declaration order
VisitedBefore(a, b) ==
    /\ a # b
    /\ LET pa == PathTo(a)
           pb == PathTo(b)
           k  == Cardinality({i \in DOMAIN pa \cap DOMAIN pb :
                                 \A j \in 1..i : pa[j] = pb[j]})
       IN  IF k = Len(pa) THEN TRUE
           ELSE IF k = Len(pb) THEN FALSE
           ELSE IndexIn(nodes[pa[k]].children, pa[k + 1])
                    < IndexIn(nodes[pa[k]].children, pb[k + 1])

FirstUser(m) == CHOOSE a \in Users(m) : \A b \in Users(m) \ {a} : VisitedBefore(a, b)

FirstEncounteredBefore(m1, m2) ==
    LET a == FirstUser(m1)
        b == FirstUser(m2)
    IN  IF a = b
        THEN IndexIn(nodes[a].material.mats, m1) < IndexIn(nodes[a].material.mats, m2)
        ELSE VisitedBefore(a, b)

\* C8: getUniqueModelMaterials returns every material instance referenced by
\* a mesh node exactly once, in first-encountered order of the depth-first
\* walk, and a later call on the model returns the same sequence.
C8_UniqueMaterialsInOrder ==
    /\ [](collected =>
            /\ Range(lastMaterials) = Referenced
            /\ Len(lastMaterials) = Cardinality(Referenced)
            /\ \A i, j \in DOMAIN lastMaterials :
                  i < j => /\ lastMaterials[i] # lastMaterials[j]
                           /\ FirstEncounteredBefore(lastMaterials[i], lastMaterials[j]))
    /\ [][collected => lastMaterials' = lastMaterials]_vars

\* materials collected from a tree where two meshes share an instance, one
\* mesh has a material array, a mesh lies below a non-root node and a later
\* sibling subtree exists
C8_Witness ==
    /\ collected
    /\ Len(lastMaterials) >= 2
    /\ \E a, b \in Meshes : a # b /\ {a, b} \subseteq Users(lastMaterials[1])
    /\ \E a \in Meshes : nodes[a].material.kind = "array"
    /\ \E a, b \in Meshes : Len(PathTo(a)) >= 3 /\ a > b /\ VisitedBefore(a, b)

\* C9: enableModelShadows sets castShadow and receiveShadow on every mesh node
\* at any depth and leaves every other node as it was; once it has run,
\* running it again changes nothing.
C9_ShadowsOnEveryMesh ==
    [][/\ (~shadowed /\ shadowed')
            => \A id \in DOMAIN nodes :
                  nodes'[id] = IF nodes[id].kind = "Mesh"
                               THEN [nodes[id] EXCEPT !.castShadow = TRUE,
                                                      !.receiveShadow = TRUE]
                               ELSE nodes[id]
       /\ shadowed => nodes' = nodes
      ]_vars

\* shadows enabled on a mesh two levels below the root, next to a non-mesh node
C9_Witness ==
    /\ shadowed
    /\ \E a \in Meshes :
          Len(PathTo(a)) >= 3 /\ nodes[a].castShadow /\ nodes[a].receiveShadow
    /\ \E g \in DOMAIN nodes \ Meshes :
          g # 1 /\ ~nodes[g].castShadow /\ ~nodes[g].receiveShadow

(***************************************************************************)
(* Properties of the factory (SpecCam)                                     *)
(***************************************************************************)
\* C10: initCamera on a mount node of height zero raises ConfigurationError
\* and returns no camera; on a mount node of positive width and height the
\* camera's aspect is width / height.
C10_ZeroHeightRejected ==
    [][(camera' # camera \/ cameraError' # cameraError)
       => IF mountNode.clientHeight = 0
          THEN camera' = NoObject /\ cameraError' = "ConfigurationError"
          ELSE mountNode.clientWidth > 0
               => camera'.aspect = Num(mountNode.clientWidth, mountNode.clientHeight)
      ]_vars
====
